---- MODULE Spec2Model ----
(***************************************************************************)
(* A model of pytest_sentry.py: the marker resolver, the client factory,   *)
(* the hook interceptor (hookwrapper/_with_hub) and the four wrapped hooks *)
(* of the plugin, run by an engine that nests hook invocations the way the *)
(* test runner does, and the event processor run on the events the SDK    *)
(* builds.  The SDK objects the plugin drives (Hub, Client, Scope) are     *)
(* modelled by the fields the plugin's code reads and writes.              *)
(***************************************************************************)
EXTENDS Integers, Sequences, FiniteSets, TLC

\* ------------------------------------------------------------------ bounds
MaxHooks == 4       \* hook invocations in one behaviour

\* ------------------------------------------------------- SDK object identities
GLOBAL_HUB == 0     \* the SDK's main hub, Hub.current before any "with hub"
DEFAULT_HUB == 1    \* DEFAULT_HUB = Hub(Client())
USER_HUB == 2       \* a Hub instance the user passes as marker value
BARE_HUB == 3       \* a user's Hub whose client lacks PytestIntegration
FirstNewHub == 4    \* the first Hub the resolver constructs

NoneClient == 0     \* hub.client is None
DefaultClient == 1  \* the Client() inside DEFAULT_HUB
UserClient == 2     \* a pytest_sentry.Client instance the user built
HubClient == 3      \* the SDK client inside USER_HUB, toggle given explicitly
PlainClient == 4    \* the SDK client inside BARE_HUB, without PytestIntegration
NewClientBase == 10 \* the client built for hub h by the resolver is NewClientBase + h

Items == {"t1", "t2"}

Last(s) == s[Len(s)]
Front(s) == SubSeq(s, 1, Len(s) - 1)

\* ------------------------------------------------------------ the environment
\* os.environ as the plugin reads it: PYTEST_SENTRY_ALWAYS_REPORT ("" = unset,
\* the default of environ.get) and PYTEST_SENTRY_DSN ("None" = unset).
Environs ==
    { [PYTEST_SENTRY_ALWAYS_REPORT |-> a, PYTEST_SENTRY_DSN |-> d] :
        a \in {""}, d \in {"None"} }

\* A comparison that takes the variable's value as it is written.
LowerAsIs(s) == s

\* str.lower() on the values the environment variable takes in the model.
Lower(s) ==
    CASE s = "True" -> "true"
      [] s = "TRUE" -> "true"
      [] s = "Yes"  -> "yes"
      [] s = "YES"  -> "yes"
      [] OTHER      -> s

\* PytestIntegration.__init__: always_report is "None" (not given), "True" or
\* "False"; the result is the toggle carried by a client.
PytestIntegration(always_report, env) ==
    [present |-> TRUE,
     always_report |->
        IF always_report = "None"
        THEN Lower(env.PYTEST_SENTRY_ALWAYS_REPORT) \in {"1", "true", "yes"}
        ELSE always_report = "True"]

NoIntegration == [present |-> FALSE, always_report |-> FALSE]

\* kwargs.setdefault("integrations", []).append(PytestIntegration()): the list
\* under the integrations keyword (<<>> when the caller gave none) after the
\* append; a list the caller gave is that same object.
AppendIntegration(integrations, env) ==
    Append(integrations, PytestIntegration("None", env))

\* The SDK's setup of a client's integrations: one per identifier, the last of
\* the list; the lists of the model hold PytestIntegration objects only.
setup_integrations(integrations) ==
    IF integrations = <<>> THEN NoIntegration ELSE Last(integrations)

\* Client.__init__: posDsn is the positional argument and kwDsn the dsn keyword
\* the caller gave, "unset" when not given; integrations is the list the caller
\* gave under that keyword, <<>> when not given.  kwargs.setdefault("dsn", ...)
\* fills the keyword from the environment when the caller gave no keyword; the
\* SDK's constructor then takes the positional dsn only when the keyword is
\* None.
Client(id, posDsn, kwDsn, integrations, env) ==
    [id |-> id,
     dsn |-> LET kw == IF kwDsn = "unset" THEN env.PYTEST_SENTRY_DSN ELSE kwDsn
             IN  IF kw # "None" THEN kw
                 ELSE IF posDsn # "unset" THEN posDsn ELSE "None",
     traces_sample_rate |-> 10,       \* tenths: 1.0
     environment |-> "test",
     integrations |-> AppendIntegration(integrations, env),
     integration |-> setup_integrations(AppendIntegration(integrations, env))]

NoClientRec ==
    [id |-> NoneClient, dsn |-> "None", traces_sample_rate |-> 0,
     environment |-> "", integrations |-> <<>>, integration |-> NoIntegration]

\* The Client instance the user may hand over as marker value: an instance of
\* this module's Client class (isinstance(marker_value, Client)), so built by
\* Client.__init__.
UserClientRec(env) == Client(UserClient, "https://user", "unset", <<>>, env)

\* The clients inside the Hub instances the user may hand over: SDK clients
\* built without Client.__init__, one with PytestIntegration(always_report=True)
\* among its integrations, one without the integration.
HubClientRec(env) ==
    [id |-> HubClient, dsn |-> "https://hub", traces_sample_rate |-> 0,
     environment |-> "prod",
     integrations |-> <<PytestIntegration("True", env)>>,
     integration |-> setup_integrations(<<PytestIntegration("True", env)>>)]

PlainClientRec ==
    [id |-> PlainClient, dsn |-> "https://plain", traces_sample_rate |-> 0,
     environment |-> "prod", integrations |-> <<>>,
     integration |-> setup_integrations(<<>>)]

\* ------------------------------------------------------------------- scopes
\* A Scope as the plugin uses it: the number of registrations of
\* _process_event, the "pytest.result" tag, who pushed it ("" = the hub's
\* root scope, otherwise the item whose protocol phase pushed it) and the
\* number of transactions open on it (its span).
RootScope == [processors |-> 0, tag |-> "", owner |-> "", span |-> 0]

\* Hub(client): one layer (client, Scope()) and no saved hubs.
Hub(client) == [client |-> client, stack |-> <<RootScope>>, old_hubs |-> <<>>]

\* ------------------------------------------------------------ marker values
\* A marker value is [type, val]: type is the Python type the resolver tests
\* for, val tells the instances of one type apart.  A "function" is a
\* zero-argument callable; CallResult gives what it returns.
V(t, v) == [type |-> t, val |-> v]

Literals ==
    { V("NoneType", "None"),
      V("str", "https://dsn"), V("str", ""),
      V("dict", "dsn"), V("dict", "empty"),
      V("Client", "user"), V("sentry_sdk.Client", "plain"),
      V("Hub", "user"), V("Hub", "bare"),
      V("int", "0"), V("int", "5"), V("bool", "False") }

Callables ==
    { V("function", r) : r \in {"None", "str", "Hub", "int0", "function"} }

CallResult(f) ==
    CASE f.val = "None"     -> V("NoneType", "None")
      [] f.val = "str"      -> V("str", "https://dsn")
      [] f.val = "Hub"      -> V("Hub", "user")
      [] f.val = "int0"     -> V("int", "0")
      [] f.val = "function" -> V("function", "None")

\* item.get_closest_marker("sentry_client"): None (absent), or a mark with its
\* positional arguments.
NoMarker == [present |-> FALSE, args |-> <<>>]
Mark(args) == [present |-> TRUE, args |-> args]

Markers ==
    {NoMarker, Mark(<<>>)} \cup { Mark(<<v>>) : v \in Literals \cup Callables }

\* The markers of the items whose hooks the engine runs: every accepted shape
\* and every way to fail.
HookMarkers ==
    {NoMarker, Mark(<<>>)} \cup
    { Mark(<<v>>) : v \in { V("NoneType", "None"), V("str", "https://dsn"), V("str", ""),
                            V("dict", "dsn"), V("Client", "user"), V("Hub", "user"),
                            V("Hub", "bare"), V("int", "0"),
                            V("function", "None"), V("function", "str") } }

\* A resolver that skips the "if callable(marker_value)" step.
callableNever(v) == FALSE

\* callable(marker_value): functions are; Hub, Client, str, dict, int are not.
callable(v) == v.type = "function"

\* The Hub instance a marker value of type Hub denotes.
HubInstance(v) ==
    CASE v.val = "default" -> DEFAULT_HUB
      [] v.val = "user"    -> USER_HUB
      [] v.val = "bare"    -> BARE_HUB

\* _resolve_hub_marker_value(marker_value), with n the id the next Hub(...)
\* constructed gets.  The result tells whether it returned or raised, the hub
\* returned, whether that hub is a new object (and then its fields), and how
\* often the marker's callable was invoked.
Returned(hub, new, rec, invoked) ==
    [raised |-> "", type |-> "", hub |-> hub, new |-> new, rec |-> rec,
     invoked |-> invoked]
Raised(exc, type, invoked) ==
    [raised |-> exc, type |-> type, hub |-> GLOBAL_HUB, new |-> FALSE,
     rec |-> Hub(NoClientRec), invoked |-> invoked]

\* A resolver that takes None for "no marker" and gives the default hub.
ResolveNoneAsDefault(n, invoked) ==
    Returned(DEFAULT_HUB, FALSE, Hub(NoClientRec), invoked)

\* "if marker_value is None: return Hub()": reporting explicitly disabled.
ResolveNone(n, invoked) == Returned(n, TRUE, Hub(NoClientRec), invoked)

\* "if isinstance(marker_value, str): return Hub(Client(marker_value))"
ResolveStr(v, n, env, invoked) ==
    Returned(n, TRUE, Hub(Client(NewClientBase + n, v.val, "unset", <<>>, env)), invoked)

\* "if isinstance(marker_value, dict): return Hub(Client(**marker_value))"; the
\* mapping holds a dsn key (val = "dsn") or nothing.
ResolveDict(v, n, env, invoked) ==
    Returned(n, TRUE,
             Hub(Client(NewClientBase + n, "unset",
                        IF v.val = "dsn" THEN "https://dict" ELSE "unset",
                        <<>>, env)),
             invoked)

\* "if isinstance(marker_value, Client): return Hub(marker_value)"
ResolveClient(v, n, env, invoked) ==
    Returned(n, TRUE, Hub(UserClientRec(env)), invoked)

\* "if isinstance(marker_value, Hub): return marker_value"
ResolveHub(v, invoked) ==
    Returned(HubInstance(v), FALSE, Hub(NoClientRec), invoked)

\* The type dispatch of the resolver, on the value left after the callable
\* was resolved; anything else raises RuntimeError naming the type.
ResolveLiteral(v, n, env, invoked) ==
    CASE v.type = "NoneType" -> ResolveNone(n, invoked)
      [] v.type = "str"      -> ResolveStr(v, n, env, invoked)
      [] v.type = "dict"     -> ResolveDict(v, n, env, invoked)
      [] v.type = "Client"   -> ResolveClient(v, n, env, invoked)
      [] v.type = "Hub"      -> ResolveHub(v, invoked)
      [] OTHER               -> Raised("RuntimeError", v.type, invoked)

_resolve_hub_marker_value(marker, n, env) ==
    IF ~marker.present
    THEN ResolveLiteral(V("Hub", "default"), n, env, 0)
    ELSE IF Len(marker.args) = 0
    THEN Raised("IndexError", "", 0)
    ELSE LET v == marker.args[1]
         IN  IF callable(v)
             THEN ResolveLiteral(CallResult(v), n, env, 1)
             ELSE ResolveLiteral(v, n, env, 0)

\* ------------------------------------------------------------------- events
\* An event as the SDK hands it to an event processor: a dict that may hold
\* "exception" (with its "values", one entry per chained exception, each with
\* or without "stacktrace"), may hold a top-level "stacktrace", and holds
\* other keys ("level").  A stack trace holds "frames"; a frame holds "module"
\* (a str, or None when the frame's globals have no __name__), "function" and,
\* once set, "in_app" ("unset" = the key is absent).
MaxFrames == 2      \* frames in one event

ModuleValues ==
    { V("str", "pluggy._hooks"), V("str", "_pytest.runner"),
      V("str", "pytest.collect"), V("str", "myproject.mymodule"),
      V("str", "pytest_sentry"), V("str", "pluggy"),
      V("NoneType", "None") }

Frames ==
    { [module |-> m, function |-> "call", in_app |-> "unset"] : m \in ModuleValues }
    \cup { [module |-> V("str", "pluggy._hooks"), function |-> "call", in_app |-> "True"],
           [module |-> V("str", "myproject.mymodule"), function |-> "call", in_app |-> "False"] }

NoStacktrace == [present |-> FALSE, frames |-> <<>>]

\* The "stacktrace" values with k frames; with no frame also the absent key.
Stacktraces(k) ==
    { [present |-> TRUE, frames |-> fs] : fs \in [1..k -> Frames] }
    \cup (IF k = 0 THEN {NoStacktrace} ELSE {})

NoEvent ==
    [exception |-> [present |-> FALSE, values |-> <<>>],
     stacktrace |-> NoStacktrace, level |-> ""]

\* The events of the model: without "exception", or with two chained
\* exception entries; at most max frames in all.
Events(max) ==
    UNION { { [exception |-> [present |-> TRUE,
                              values |-> << [type |-> "ValueError", stacktrace |-> s1],
                                            [type |-> "KeyError", stacktrace |-> s2] >>],
               stacktrace |-> st, level |-> "error"] :
                 s1 \in Stacktraces(n[1]), s2 \in Stacktraces(n[2]),
                 st \in Stacktraces(n[3]) } :
            n \in { m \in [1..3 -> 0..max] : m[1] + m[2] + m[3] <= max } }
    \cup UNION { { [exception |-> [present |-> FALSE, values |-> <<>>],
                    stacktrace |-> st, level |-> "error"] :
                      st \in Stacktraces(k) } : k \in 0..max }

\* str.startswith(p), and with a tuple of prefixes.
StartsWith(s, p) == Len(s) >= Len(p) /\ SubSeq(s, 1, Len(p)) = p

StartsWithAny(s, prefixes) == \E p \in prefixes : StartsWith(s, p)

FrameworkPrefixes == {"_pytest.", "pytest.", "pluggy."}

\* The loop of _process_stacktrace over the frames: each frame's "in_app" is
\* set in place; frame["module"].startswith raises AttributeError on None and
\* the frames from there on stay as they were.
RECURSIVE ProcessFrames(_)
ProcessFrames(frames) ==
    IF frames = <<>> THEN [frames |-> <<>>, raised |-> ""]
    ELSE LET frame == Head(frames)
         IN  IF frame.module.type # "str"
             THEN [frames |-> frames, raised |-> "AttributeError"]
             ELSE LET rest == ProcessFrames(Tail(frames))
                      in_app == IF ~StartsWithAny(frame.module.val, FrameworkPrefixes)
                                THEN "True" ELSE "False"
                  IN  [frames |-> <<[frame EXCEPT !.in_app = in_app]>> \o rest.frames,
                       raised |-> rest.raised]

_process_stacktrace(stacktrace) ==
    LET r == ProcessFrames(stacktrace.frames)
    IN  [stacktrace |-> [stacktrace EXCEPT !.frames = r.frames], raised |-> r.raised]

\* "for exception in event["exception"]["values"]: if "stacktrace" in
\* exception: _process_stacktrace(exception["stacktrace"])"
RECURSIVE ProcessValues(_)
ProcessValues(values) ==
    IF values = <<>> THEN [values |-> <<>>, raised |-> ""]
    ELSE LET exception == Head(values)
             r == IF exception.stacktrace.present
                  THEN _process_stacktrace(exception.stacktrace)
                  ELSE [stacktrace |-> exception.stacktrace, raised |-> ""]
             done == [exception EXCEPT !.stacktrace = r.stacktrace]
         IN  IF r.raised # ""
             THEN [values |-> <<done>> \o Tail(values), raised |-> r.raised]
             ELSE LET rest == ProcessValues(Tail(values))
                  IN  [values |-> <<done>> \o rest.values, raised |-> rest.raised]

\* _process_event(event, hint): the event object after the call, and what the
\* call raised ("" = it returned the event).
_process_event(event) ==
    LET v  == IF event.exception.present
              THEN ProcessValues(event.exception.values)
              ELSE [values |-> event.exception.values, raised |-> ""]
        e1 == [event EXCEPT !.exception.values = v.values]
    IN  IF v.raised # "" THEN [event |-> e1, raised |-> v.raised]
        ELSE IF ~event.stacktrace.present THEN [event |-> e1, raised |-> ""]
        ELSE LET t == _process_stacktrace(event.stacktrace)
             IN  [event |-> [e1 EXCEPT !.stacktrace = t.stacktrace],
                  raised |-> t.raised]

\* -------------------------------------------------------------------- state
VARIABLES
    environ,     \* os.environ, as read at import and by every Client built
    markers,     \* markers[item]: the item's closest "sentry_client" marker
    current,     \* Hub.current
    hubs,        \* hubs[h]: the Hub objects alive, by id
    stack,       \* the wrapped hooks in flight, outermost first, each suspended
                 \* at its yield while the engine runs the inner phase
    chain,       \* chain[item]: item.pytest_sentry_exc_chain (<<>> when absent)
    captured,    \* the capture_exception calls made, oldest first
    reports,     \* reports[item]: how many instrumented outcome hooks completed
                 \* for the item, by phase and by what they reported
    lastDone,    \* the hook invocation that left the interceptor last
    lastFixture, \* what the sentry_test_hub fixture gave last
    hooks,       \* number of hook invocations so far
    nextExc,     \* the next failure object the engine raises
    callerList,  \* the list a caller of Client passes as integrations keyword
    lastBuilt,   \* the PytestIntegration or Client constructed last by a caller
    event,       \* the event object at the event processor
    lastProcess  \* the last call of _process_event: its argument and outcome

\* What is used outside the hooks: by callers of the client factory and by the
\* SDK when it runs the event processor.
outside == <<callerList, lastBuilt, event, lastProcess>>

vars == <<environ, markers, current, hubs, stack, chain, captured,
          reports, lastDone, lastFixture, hooks, nextExc,
          callerList, lastBuilt, event, lastProcess>>

NextHub == Cardinality(DOMAIN hubs)

\* The part of the state the SDK calls and the hooks act on.
World == [cur |-> current, hubs |-> hubs, chain |-> chain,
          captured |-> captured]

\* ------------------------------------------------------------- SDK operations
\* A Hub.__enter__ that saves Hub.current and leaves it current.
HubEnterSavesOnly(W, h) ==
    [W EXCEPT !.hubs[h].old_hubs = Append(@, W.cur)]

\* Hub.__enter__ ("with hub:"): save Hub.current, make this hub current.
HubEnter(W, h) ==
    [W EXCEPT !.hubs[h].old_hubs = Append(@, W.cur), !.cur = h]

\* A Hub.__exit__ that drops the saved hub without making it current.
HubExitKeepsCurrent(W, h) ==
    [W EXCEPT !.hubs[h].old_hubs = Front(@)]

\* Hub.__exit__: make the hub saved last by this hub current again.
HubExit(W, h) ==
    [W EXCEPT !.hubs[h].old_hubs = Front(@),
              !.cur = Last(W.hubs[h].old_hubs)]

\* hub.get_integration(PytestIntegration): the toggle of the hub's client,
\* NoIntegration (None) when the hub has no client or the client lacks it.
get_integration(W, h) == W.hubs[h].client.integration

TopScope(W, h) == Last(W.hubs[h].stack)

\* sentry_sdk.push_scope() entered: a copy of the current hub's top scope.
push_scope(W, item) ==
    [W EXCEPT !.hubs[W.cur].stack = Append(@, [TopScope(W, W.cur) EXCEPT !.owner = item])]

\* scope.add_event_processor(_process_event) on the scope just pushed.
add_event_processor(W) ==
    [W EXCEPT !.hubs[W.cur].stack[Len(W.hubs[W.cur].stack)].processors = @ + 1]

\* A push_scope() block that leaves its scope on the stack.
KeepScope(W, h) == W

\* Leaving "with sentry_sdk.push_scope()": the hub it was pushed on pops it.
pop_scope(W, h) ==
    [W EXCEPT !.hubs[h].stack = Front(@)]

\* sentry_sdk.set_tag("pytest.result", value) on the current hub's top scope.
set_tag(W, value) ==
    [W EXCEPT !.hubs[W.cur].stack[Len(W.hubs[W.cur].stack)].tag = value]

\* "with sentry_sdk.start_transaction(op=..., name=...)" entered: the
\* transaction becomes the span of the current hub's top scope ...
start_transaction(W) ==
    [W EXCEPT !.hubs[W.cur].stack[Len(W.hubs[W.cur].stack)].span = @ + 1]

\* ... and left: the transaction is finished and the scope's span restored.
finish_transaction(W, h) ==
    [W EXCEPT !.hubs[h].stack[Len(W.hubs[h].stack)].span = @ - 1]

\* capture_exception((type, value, tb)) on the current hub: the event passes
\* the event processors of the hub's scope stack.
capture_exception(W, e) ==
    [W EXCEPT !.captured = Append(@, [exc |-> e, hub |-> W.cur,
                                      scope |-> TopScope(W, W.cur)])]

\* ------------------------------------------------------------ wrapped hooks
\* A step of a wrapped hook (a generator): the world after it and how it
\* stopped: "yield", "StopIteration" (it returned) or the exception it raised.
Step(W, exc) == [W |-> W, exc |-> exc]

\* A loop that stops after the first failure of the chain.
CaptureFirstOnly(W, es) ==
    IF es = <<>> THEN W ELSE capture_exception(W, Head(es))

\* "for exc_info in cur_exc_chain: capture_exception(...)".
RECURSIVE CaptureAll(_, _)
CaptureAll(W, es) ==
    IF es = <<>> THEN W
    ELSE CaptureAll(capture_exception(W, Head(es)), Tail(es))

\* A submission test that reports whenever the chain holds a failure.
ShouldReportAnyFailure(cur_exc_chain, excinfo, always_report) ==
    cur_exc_chain # <<>> \/ always_report

\* A submission test that reports under always_report alone.
ShouldReportAlwaysOnly(cur_exc_chain, excinfo, always_report) ==
    always_report

\* The submission test of pytest_runtest_makereport.
ShouldReport(cur_exc_chain, excinfo, always_report) ==
    (cur_exc_chain # <<>> /\ excinfo = 0) \/ always_report

\* report.get_result().outcome as the engine's report gives it.
Outcome(f) == IF f.excinfo = 0 THEN "passed" ELSE "failed"

\* pytest_runtest_protocol up to its yield.
ProtocolBefore(W, f) == Step(add_event_processor(push_scope(W, f.item)), "yield")
\* ... and after it: the with block is left.
ProtocolAfter(W, f) == Step(pop_scope(W, f.hub), "StopIteration")

\* pytest_runtest_call and pytest_fixture_setup up to the yield: fail tells
\* whether start_transaction raises (a traces_sampler of the client's raising).
TransactionBefore(W, f, fail) ==
    IF fail THEN Step(W, "SamplerError")
    ELSE Step(start_transaction(W), "yield")
TransactionAfter(W, f) == Step(finish_transaction(W, f.hub), "StopIteration")

\* A chain that keeps the latest failure only.
ChainLatestOnly(old, excinfo) ==
    IF excinfo # 0 THEN <<excinfo>> ELSE old

\* "if call.excinfo is not None: item.pytest_sentry_exc_chain = cur_exc_chain
\* = cur_exc_chain + [call.excinfo]"
ChainWith(old, excinfo) ==
    IF excinfo # 0 THEN Append(old, excinfo) ELSE old

\* pytest_runtest_makereport up to its yield.
MakereportBefore(W, f) == Step(set_tag(W, "pending"), "yield")

\* ... and after it; result is "ok" when the engine produced a report and
\* "raise" when report.get_result() re-raises the inner hooks' failure.
MakereportAfter(W, f, result) ==
    IF result = "raise" THEN Step(W, "ReportError")
    ELSE
    LET W1 == set_tag(W, Outcome(f))
    IN  IF f.when # "call" THEN Step(W1, "StopIteration")
        ELSE
        LET old == W1.chain[f.item]
            cur_exc_chain == ChainWith(old, f.excinfo)
            W2 == [W1 EXCEPT !.chain[f.item] = cur_exc_chain]
            integration == get_integration(W2, W2.cur)
        IN  IF ~integration.present THEN Step(W2, "AttributeError")
            ELSE IF ShouldReport(cur_exc_chain, f.excinfo, integration.always_report)
            THEN Step(CaptureAll(W2, cur_exc_chain), "StopIteration")
            ELSE Step(W2, "StopIteration")

BeforePart(W, f, fail) ==
    CASE f.hook = "protocol"   -> ProtocolBefore(W, f)
      [] f.hook = "call"       -> TransactionBefore(W, f, fail)
      [] f.hook = "fixture"    -> TransactionBefore(W, f, fail)
      [] f.hook = "makereport" -> MakereportBefore(W, f)

AfterPart(W, f, result) ==
    CASE f.hook = "protocol"   -> ProtocolAfter(W, f)
      [] f.hook = "call"       -> TransactionAfter(W, f)
      [] f.hook = "fixture"    -> TransactionAfter(W, f)
      [] f.hook = "makereport" -> MakereportAfter(W, f, result)

\* ---------------------------------------------------------- the interceptor
\* A loop that breaks on every exception ("except Exception: break").
AbsorbAll(exc) == ""

\* "except StopIteration: break": what leaves the loop for an exception that
\* reached it ("" = nothing, the interceptor returns).
Absorb(exc) == IF exc = "StopIteration" THEN "" ELSE exc

\* An interceptor that tests Hub.current for the integration.
DisabledByCurrent(W, h) == ~get_integration(W, W.cur).present

\* An interceptor that never takes the pass-through branch.
DisabledNever(W, h) == FALSE

\* hub.get_integration(PytestIntegration) is None
Disabled(W, h) == ~get_integration(W, h).present

\* _with_hub from its call to its first yield, after the resolver returned hub
\* h.  Gives the world, whether it is suspended at a yield ("yield") or what
\* left it, whether the hook is instrumented, and what the wrapped hook's
\* before-part raised.
WithHubStart(W, f, fail) ==
    IF Disabled(W, f.hub)
    THEN [W |-> W, out |-> "yield", enabled |-> FALSE, part |-> "", body |-> 0]
    ELSE LET W1 == HubExit(HubEnter(W, f.hub), f.hub)   \* with hub: gen = wrapped(...)
             W2 == HubEnter(W1, f.hub)                   \* with hub: next(gen)
             b  == BeforePart(W2, f, fail)
         IN  IF b.exc = "yield"
             THEN [W |-> b.W, out |-> "yield", enabled |-> TRUE, part |-> "", body |-> 1]
             ELSE [W |-> HubExit(b.W, f.hub), out |-> Absorb(b.exc),
                   enabled |-> TRUE, part |-> b.exc, body |-> 1]

\* _with_hub from the engine's send to its end.
WithHubResume(W, f, result) ==
    IF ~f.enabled
    THEN [W |-> W, out |-> "", part |-> "", body |-> 0]
    ELSE LET a == AfterPart(W, f, result)            \* y = yield ...; gen.send(y)
         IN  [W |-> HubExit(a.W, f.hub), out |-> Absorb(a.exc),
              part |-> a.exc, body |-> 1]

\* --------------------------------------------------------------------- Init
NoneDone ==
    [hook |-> "", item |-> "", when |-> "", excinfo |-> 0, hub |-> GLOBAL_HUB,
     enabled |-> FALSE, saved |-> GLOBAL_HUB, stage |-> "", raised |-> "",
     type |-> "", part |-> "", result |-> "", body |-> 0, yields |-> 0, sends |-> 0]

NoReports == [setup |-> 0, call |-> 0, teardown |-> 0, raised |-> 0, broken |-> 0]

\* One more outcome hook done for phase when: raised counts the "call"
\* outcomes that carried a failure, broken the hooks that got no report.
Reported(r, when, excinfo, result) ==
    [setup    |-> r.setup + (IF when = "setup" THEN 1 ELSE 0),
     call     |-> r.call + (IF when = "call" THEN 1 ELSE 0),
     teardown |-> r.teardown + (IF when = "teardown" THEN 1 ELSE 0),
     raised   |-> r.raised + (IF when = "call" /\ excinfo # 0 THEN 1 ELSE 0),
     broken   |-> r.broken + (IF result = "raise" THEN 1 ELSE 0)]

NoneFixture ==
    [item |-> "", raised |-> "", type |-> "", hub |-> GLOBAL_HUB, new |-> FALSE,
     invoked |-> 0]

NoneBuilt ==
    [kind |-> "", always_report |-> "", given |-> <<>>, keyword |-> FALSE,
     integration |-> NoIntegration, client |-> NoClientRec]

NoneProcess == [called |-> FALSE, raised |-> "", given |-> NoEvent]

\* Nothing was built by a caller and no event is at the processor.
InitOutside ==
    /\ callerList = <<>>
    /\ lastBuilt = NoneBuilt
    /\ event = NoEvent
    /\ lastProcess = NoneProcess

\* Module import: DEFAULT_HUB = Hub(Client()); the hubs the user built exist.
InitHubs(env) ==
    (GLOBAL_HUB :> Hub(NoClientRec)) @@
    (DEFAULT_HUB :> Hub(Client(DefaultClient, "unset", "unset", <<>>, env))) @@
    (USER_HUB :> Hub(HubClientRec(env))) @@
    (BARE_HUB :> Hub(PlainClientRec))

Init ==
    /\ environ \in Environs
    /\ markers \in [Items -> HookMarkers]
    /\ markers["t2"] = NoMarker
    /\ current = GLOBAL_HUB
    /\ hubs = InitHubs(environ)
    /\ stack = <<>>
    /\ chain = [i \in Items |-> <<>>]
    /\ captured = <<>>
    /\ reports = [i \in Items |-> NoReports]
    /\ lastDone = NoneDone
    /\ lastFixture = NoneFixture
    /\ hooks = 0
    /\ nextExc = 1
    /\ InitOutside

\* ------------------------------------------------------------------ actions
\* The hooks the engine runs inside a hook that is suspended at its yield:
\* the protocol phase holds fixture setups, the test call and the outcome
\* reports; the test call may set up further fixtures.
Nests(parent, hook) ==
    \/ parent = "protocol" /\ hook \in {"fixture", "call", "makereport"}
    \/ parent = "call" /\ hook = "fixture"

SetWorld(W) ==
    /\ current' = W.cur
    /\ hubs' = W.hubs
    /\ chain' = W.chain
    /\ captured' = W.captured

\* The world once the resolver has constructed (or not) its Hub.
Allocated(W, res) ==
    IF res.new THEN [W EXCEPT !.hubs = W.hubs @@ (res.hub :> res.rec)] ELSE W

\* The engine runs the items in collection order, t1 before t2; an item's
\* protocol phase may run again (a rerun).
RunsNext(item) == item = "t1" => lastDone.item # "t2"

\* The engine calls a wrapped hook: _with_hub runs from the itemgetter to its
\* first yield, or raises.  raises: the phase reported by an outcome hook
\* raised (call.excinfo is a new failure object); fail: see TransactionBefore.
Invoke(hook, item, when, raises, fail) ==
    /\ hooks < MaxHooks
    /\ IF stack = <<>> THEN hook = "protocol" /\ RunsNext(item)
       ELSE item = Last(stack).item /\ Nests(Last(stack).hook, hook)
    /\ (hook = "makereport") = (when # "")
    /\ raises => hook = "makereport"
    /\ fail => hook \in {"call", "fixture"}
    /\ LET res == _resolve_hub_marker_value(markers[item], NextHub, environ)
           f0  == [hook |-> hook, item |-> item, when |-> when,
                   excinfo |-> IF raises THEN nextExc ELSE 0,
                   hub |-> res.hub, enabled |-> FALSE, saved |-> current]
       IN  /\ IF res.raised # ""
              THEN /\ lastDone' = [NoneDone EXCEPT !.hook = hook, !.item = item,
                                      !.when = when, !.excinfo = f0.excinfo,
                                      !.saved = current, !.stage = "resolve",
                                      !.raised = res.raised, !.type = res.type]
                   /\ UNCHANGED <<current, hubs, chain, captured, stack>>
              ELSE LET s == WithHubStart(Allocated(World, res), f0, fail)
                       f == [f0 EXCEPT !.enabled = s.enabled]
                   IN  /\ SetWorld(s.W)
                       /\ IF s.out = "yield"
                          THEN /\ stack' = Append(stack, f)
                               /\ UNCHANGED lastDone
                          ELSE /\ lastDone' = [NoneDone EXCEPT !.hook = hook, !.item = item,
                                      !.when = when, !.excinfo = f.excinfo,
                                      !.hub = f.hub, !.enabled = f.enabled,
                                      !.saved = current, !.stage = "before",
                                      !.raised = s.out, !.part = s.part,
                                      !.body = s.body]
                               /\ UNCHANGED stack
    /\ hooks' = hooks + 1
    /\ nextExc' = IF raises THEN nextExc + 1 ELSE nextExc
    /\ lastFixture' = IF hook = "protocol" THEN NoneFixture ELSE lastFixture
    /\ UNCHANGED <<environ, markers, reports>>
    /\ UNCHANGED outside

\* The engine has run the inner phase and sends its result to the innermost
\* suspended hook: _with_hub runs from its yield to its end.  result is "ok"
\* when the inner hooks gave a result and "raise" when they raised; lastDone
\* keeps it for the one hook that reads it, the outcome hook.
Send(result) ==
    /\ stack # <<>>
    /\ LET f == Last(stack)
           r == WithHubResume(World, f, result)
       IN  /\ SetWorld(r.W)
           /\ stack' = Front(stack)
           /\ lastDone' = [NoneDone EXCEPT !.hook = f.hook, !.item = f.item,
                              !.when = f.when, !.excinfo = f.excinfo,
                              !.hub = f.hub, !.enabled = f.enabled,
                              !.saved = f.saved, !.stage = "after",
                              !.raised = r.out, !.part = r.part,
                              !.result = IF f.hook = "makereport" THEN result ELSE "",
                              !.body = IF f.enabled THEN 1 ELSE 0,
                              !.yields = 1, !.sends = r.body]
           /\ reports' = IF f.hook = "makereport" /\ f.enabled
                         THEN [reports EXCEPT ![f.item] =
                                  Reported(@, f.when, f.excinfo, result)]
                         ELSE reports
    /\ UNCHANGED <<environ, markers, lastFixture, hooks, nextExc>>
    /\ UNCHANGED outside

\* sentry_test_hub(request): resolve the marker of request.node, return the
\* hub.
FixtureBody(item) ==
    /\ LET res == _resolve_hub_marker_value(markers[item], NextHub, environ)
       IN  /\ hubs' = Allocated(World, res).hubs
           /\ lastFixture' = [item |-> item, raised |-> res.raised,
                              type |-> res.type, hub |-> res.hub,
                              new |-> res.new, invoked |-> res.invoked]
    /\ UNCHANGED <<environ, markers, current, stack, chain, captured,
                   reports, lastDone, hooks, nextExc>>
    /\ UNCHANGED outside

\* The sentry_test_hub fixture function runs: the engine calls it inside the
\* fixture-setup hook of the item that requests it, once per run of the item.
SentryTestHub(item) ==
    /\ stack # <<>>
    /\ Last(stack).item = item
    /\ Last(stack).hook = "fixture"
    /\ lastFixture.item = ""
    /\ FixtureBody(item)

Next ==
    \/ \E hook \in {"protocol", "call", "fixture", "makereport"}, item \in Items,
          when \in {"", "setup", "call", "teardown"}, raises \in BOOLEAN,
          fail \in BOOLEAN :
            Invoke(hook, item, when, raises, fail)
    \/ \E result \in {"ok", "raise"} : Send(result)
    \/ \E item \in Items : SentryTestHub(item)

Spec == Init /\ [][Next]_vars

\* ----------------------------------------------- the resolver on every input
\* The resolver applied, through the fixture, to every marker value and
\* environment of the model, with no hook running.
MaxResolves == 3    \* Hub objects the resolver may construct in one behaviour

EnvironsAll ==
    { [PYTEST_SENTRY_ALWAYS_REPORT |-> a, PYTEST_SENTRY_DSN |-> d] :
        a \in {"", "1", "True", "YES", "0", "no"}, d \in {"None", "https://env"} }

InitResolve ==
    /\ environ \in EnvironsAll
    /\ markers \in [Items -> Markers]
    /\ markers["t2"] = NoMarker
    /\ current = GLOBAL_HUB
    /\ hubs = InitHubs(environ)
    /\ stack = <<>>
    /\ chain = [i \in Items |-> <<>>]
    /\ captured = <<>>
    /\ reports = [i \in Items |-> NoReports]
    /\ lastDone = NoneDone
    /\ lastFixture = NoneFixture
    /\ hooks = 0
    /\ nextExc = 1
    /\ InitOutside

Resolve(item) ==
    /\ NextHub < FirstNewHub + MaxResolves
    /\ FixtureBody(item)

NextResolve == \E item \in Items : Resolve(item)

SpecResolve == InitResolve /\ [][NextResolve]_vars

\* ------------------------------------------- the client factory, by callers
\* PytestIntegration and Client constructed directly: a caller builds toggles
\* with or without an explicit always_report, keeps them in a list, and calls
\* Client with or without that list as integrations keyword (as the resolver
\* does with Client(**marker_value) for a mapping that holds the list).
MaxList == 3        \* entries of the caller's integrations list

ToggleValues ==
    {"", "1", "true", "yes", "True", "TRUE", "Yes", "YES", "0", "no", "false", "on"}

EnvironsFactory ==
    { [PYTEST_SENTRY_ALWAYS_REPORT |-> a, PYTEST_SENTRY_DSN |-> d] :
        a \in ToggleValues, d \in {"None", "https://env"} }

\* No hook runs and no marker is resolved.
InitIdle ==
    /\ markers = [i \in Items |-> NoMarker]
    /\ current = GLOBAL_HUB
    /\ hubs = InitHubs(environ)
    /\ stack = <<>>
    /\ chain = [i \in Items |-> <<>>]
    /\ captured = <<>>
    /\ reports = [i \in Items |-> NoReports]
    /\ lastDone = NoneDone
    /\ lastFixture = NoneFixture
    /\ hooks = 0
    /\ nextExc = 1

IdleVars == <<environ, markers, current, hubs, stack, chain, captured,
              reports, lastDone, lastFixture, hooks, nextExc>>

InitFactory ==
    /\ environ \in EnvironsFactory
    /\ InitIdle
    /\ InitOutside

\* A caller runs "callerList.append(PytestIntegration(always_report))";
\* always_report is "None" when the argument is not given.
NewIntegration(always_report) ==
    /\ Len(callerList) < MaxList
    /\ LET integration == PytestIntegration(always_report, environ)
       IN  /\ callerList' = Append(callerList, integration)
           /\ lastBuilt' = [NoneBuilt EXCEPT !.kind = "PytestIntegration",
                               !.always_report = always_report,
                               !.integration = integration]
    /\ UNCHANGED <<event, lastProcess>>
    /\ UNCHANGED IdleVars

\* A caller runs Client(**mapping): keyword tells whether the mapping holds
\* the key "integrations" (with callerList as its value); the append of
\* Client.__init__ goes to that list object.
NewClient(keyword) ==
    /\ keyword => Len(callerList) < MaxList
    /\ LET client == Client(UserClient, "unset", "unset",
                            IF keyword THEN callerList ELSE <<>>, environ)
       IN  /\ callerList' = IF keyword THEN client.integrations ELSE callerList
           /\ lastBuilt' = [NoneBuilt EXCEPT !.kind = "Client",
                               !.given = IF keyword THEN callerList ELSE <<>>,
                               !.keyword = keyword,
                               !.integration = client.integration,
                               !.client = client]
    /\ UNCHANGED <<event, lastProcess>>
    /\ UNCHANGED IdleVars

NextFactory ==
    \/ \E always_report \in {"None", "True", "False"} : NewIntegration(always_report)
    \/ \E keyword \in BOOLEAN : NewClient(keyword)

SpecFactory == InitFactory /\ [][NextFactory]_vars

\* ------------------------------------------------- the event processor, alone
\* The SDK calls the registered _process_event on an event it built.
InitEvent ==
    /\ environ \in Environs
    /\ InitIdle
    /\ callerList = <<>>
    /\ lastBuilt = NoneBuilt
    /\ event \in Events(MaxFrames)
    /\ lastProcess = NoneProcess

ProcessEvent ==
    /\ ~lastProcess.called
    /\ LET r == _process_event(event)
       IN  /\ event' = r.event
           /\ lastProcess' = [called |-> TRUE, raised |-> r.raised, given |-> event]
    /\ UNCHANGED <<callerList, lastBuilt>>
    /\ UNCHANGED IdleVars

NextEvent == ProcessEvent

SpecEvent == InitEvent /\ [][NextEvent]_vars

\* ===================================================================== claims
\* What a step of the interceptor is, read off two successive states.
Pushed == Len(stack') = Len(stack) + 1              \* a hook reached its yield
Popped == Len(stack') = Len(stack) - 1              \* a hook was resumed and ended
RaisedAtStart == hooks' = hooks + 1 /\ stack' = stack   \* a hook raised before its yield

\* The hubs that existed before the step are as they were.
HubsKept == \A h \in DOMAIN hubs : hubs'[h] = hubs[h]

\* No context switch and no reporting call in the step.
NoReporting ==
    /\ current' = current
    /\ HubsKept
    /\ chain' = chain
    /\ captured' = captured

\* C1: once a wrapped hook has left the interceptor (after its after-part, or
\* by an exception of its before-part, of the resolver or of its after-part),
\* Hub.current is the hub that was current when the hook was invoked, whatever
\* hooks are still in flight around it.
C1_Restoration ==
    [][ /\ Popped => current' = Last(stack).saved
        /\ RaisedAtStart => current' = current ]_vars

\* A fixture-setup hook nested in a test call nested in a protocol phase, each
\* on a context instance of its own, raised in its before-part and the hub of
\* the enclosing hook is current again.
C1_Witness ==
    /\ Len(stack) = 2
    /\ lastDone.hook = "fixture" /\ lastDone.stage = "before"
    /\ lastDone.raised = "SamplerError"
    /\ stack[1].hub # stack[2].hub
    /\ lastDone.hub \notin {stack[1].hub, stack[2].hub}
    /\ current = stack[2].hub
    /\ lastDone.saved = stack[2].hub

\* C2: a hook invocation whose resolved hub carries no PytestIntegration is a
\* pass-through: reaching its yield and ending after the engine's send change
\* neither Hub.current nor any existing hub (no scope, processor, transaction
\* or tag) nor the chain, capture nothing, never start the wrapped hook and
\* raise nothing, so the engine's result stands.
C2_DisabledPassThrough ==
    [][ /\ (Pushed /\ ~hubs'[Last(stack').hub].client.integration.present)
            => NoReporting /\ ~Last(stack').enabled
        /\ (Popped /\ ~hubs[Last(stack).hub].client.integration.present)
            => /\ NoReporting
               /\ lastDone'.raised = "" /\ lastDone'.body = 0
               /\ lastDone'.yields = 1 /\ lastDone'.sends = 0 ]_vars

\* A failing "call" outcome went through the outcome hook of an item whose
\* hub has no client, and nothing was captured or chained.
C2_Witness ==
    /\ lastDone.hook = "makereport" /\ lastDone.stage = "after"
    /\ lastDone.when = "call" /\ lastDone.excinfo # 0
    /\ ~hubs[lastDone.hub].client.integration.present
    /\ lastDone.raised = ""
    /\ chain[lastDone.item] = <<>> /\ captured = <<>>

\* The hub the resolver gives for the item, as an object: the record of the
\* hub it would construct, or the existing hub it returns.
ItemHub(item) ==
    LET res == _resolve_hub_marker_value(markers[item], NextHub, environ)
    IN  IF res.new THEN res.rec ELSE hubs[res.hub]

Instrumented(item) ==
    /\ _resolve_hub_marker_value(markers[item], NextHub, environ).raised = ""
    /\ ItemHub(item).client.integration.present

AlwaysReport(item) == ItemHub(item).client.integration.always_report

\* How often failure e was passed to capture_exception.
Captures(e) == Cardinality({ k \in 1..Len(captured) : captured[k].exc = e })

\* The capture calls made for the failures of the item's chain.
ChainCaptures(item) ==
    Cardinality({ k \in 1..Len(captured) :
                    \E i \in 1..Len(chain[item]) : captured[k].exc = chain[item][i] })

\* The item's setup, call and teardown outcome hooks have run, each got its
\* report, the "call" outcome was reported once and it carried a failure; no
\* always_report is false for the item.
FailedOnceUnretried(item) ==
    /\ Instrumented(item) /\ ~AlwaysReport(item)
    /\ reports[item].setup >= 1 /\ reports[item].teardown >= 1
    /\ reports[item].call = 1 /\ reports[item].raised = 1
    /\ reports[item].broken = 0

\* C3 as stated: such an item has exactly one failure in its chain and
\* exactly one capture call was made for it.
C3_CapturedOnce ==
    \A item \in Items :
        FailedOnceUnretried(item) =>
            Len(chain[item]) = 1 /\ ChainCaptures(item) = 1

\* C3 as the code has it: such an item has exactly one failure in its chain
\* and no capture call was made for it (a failure of a call that is not
\* retried is submitted only under always_report).
C3_ChainedNotCaptured ==
    \A item \in Items :
        FailedOnceUnretried(item) =>
            Len(chain[item]) = 1 /\ ChainCaptures(item) = 0

C3_Witness ==
    /\ FailedOnceUnretried("t1")
    /\ Len(chain["t1"]) = 1
    /\ stack = <<>>

\* The outcome hook that is resumed in the step: instrumented, for phase
\* "call", and the engine produced the report.
CallOutcomeStep ==
    /\ Popped
    /\ Last(stack).hook = "makereport" /\ Last(stack).enabled
    /\ Last(stack).when = "call"
    /\ lastDone'.result = "ok"

\* The capture calls of the step, oldest first.
NewCaptures == SubSeq(captured', Len(captured) + 1, Len(captured'))

\* C4: when a passing "call" outcome is handled for an item whose chain holds
\* an earlier failure, the chain still holds every earlier failure after the
\* hook and each of them is captured while the hook handles that outcome,
\* whatever always_report says.
C4_FlakyRetry ==
    [][ (CallOutcomeStep /\ Last(stack).excinfo = 0 /\ chain[Last(stack).item] # <<>>)
          => LET item == Last(stack).item
             IN  /\ chain'[item] = chain[item]
                 /\ \A i \in 1..Len(chain[item]) :
                       \E k \in 1..Len(NewCaptures) :
                          NewCaptures[k].exc = chain[item][i] ]_vars

\* A first "call" outcome failed and was not captured, the second passed and
\* the first failure was captured then, under always_report false.
C4_Witness ==
    /\ lastDone.hook = "makereport" /\ lastDone.when = "call"
    /\ lastDone.excinfo = 0 /\ lastDone.enabled /\ lastDone.result = "ok"
    /\ ~AlwaysReport(lastDone.item)
    /\ reports[lastDone.item].call = 2 /\ reports[lastDone.item].raised = 1
    /\ Len(chain[lastDone.item]) = 1
    /\ Len(captured) = 1
    /\ captured[1].exc = chain[lastDone.item][1]

\* C5 as stated: no failure object is passed to capture_exception twice.
C5_NoDuplicateSubmission ==
    \A e \in 1..MaxHooks : Captures(e) <= 1

\* C6: an instrumented outcome hook that got its report leaves chain and
\* captures alone for "setup" and "teardown"; for "call" it appends the
\* failure of a raising call to the item's chain and then captures the whole
\* chain, one call per failure in chain order on the item's hub, exactly when
\* (the chain is non-empty and the call did not raise) or always_report is
\* set, and captures nothing otherwise.
C6_SubmissionRule ==
    [][ /\ ( /\ Popped /\ Last(stack).hook = "makereport" /\ Last(stack).enabled
             /\ Last(stack).when # "call" /\ lastDone'.result = "ok" )
           => chain' = chain /\ captured' = captured
        /\ CallOutcomeStep
           => LET f == Last(stack)
                  now == IF f.excinfo # 0 THEN Append(chain[f.item], f.excinfo)
                         ELSE chain[f.item]
                  always == hubs[f.hub].client.integration.always_report
              IN  /\ chain' = [chain EXCEPT ![f.item] = now]
                  /\ IF (now # <<>> /\ f.excinfo = 0) \/ always
                     THEN /\ Len(NewCaptures) = Len(now)
                          /\ \A k \in 1..Len(now) :
                                /\ NewCaptures[k].exc = now[k]
                                /\ NewCaptures[k].hub = f.hub
                     ELSE NewCaptures = <<>> ]_vars

\* Under always_report a second raising "call" outcome was handled: the chain
\* holds two failures and both were captured in chain order by that hook.
C6_Witness ==
    /\ lastDone.hook = "makereport" /\ lastDone.when = "call"
    /\ lastDone.excinfo # 0 /\ lastDone.enabled /\ lastDone.result = "ok"
    /\ AlwaysReport(lastDone.item)
    /\ Len(chain[lastDone.item]) = 2
    /\ Len(captured) = 3
    /\ captured[2].exc = chain[lastDone.item][1]
    /\ captured[3].exc = chain[lastDone.item][2]

\* The value the resolver dispatches on for a marker with one argument: the
\* argument, or what it returns when it is a callable.
Resolved(m) ==
    IF m.args[1].type = "function" THEN CallResult(m.args[1]) ELSE m.args[1]

\* The hub the fixture gave last was constructed by that resolution.
FixtureHubIsNew ==
    lastFixture.hub = NextHub - 1 /\ lastFixture.hub >= FirstNewHub

\* C7: the resolver's result for each enumerated marker shape.  Absent: the
\* default hub; a callable is invoked once and its result resolved as a
\* literal; None: a new hub without client; a string or a mapping: a new hub
\* around a new client; a Client instance: a new hub around that instance; a
\* Hub instance: that hub; any other type, also when a callable returned it:
\* RuntimeError naming the type, and no hub.
C7_ResolverCases ==
    LET r == lastFixture
        m == markers[r.item]
    IN  (r.item # "" /\ ~(m.present /\ m.args = <<>>)) =>
        IF ~m.present
        THEN r.raised = "" /\ r.hub = DEFAULT_HUB /\ r.invoked = 0
        ELSE LET v == Resolved(m)
             IN  /\ r.invoked = (IF m.args[1].type = "function" THEN 1 ELSE 0)
                 /\ CASE v.type = "NoneType" ->
                            /\ r.raised = "" /\ FixtureHubIsNew
                            /\ hubs[r.hub].client.id = NoneClient
                      [] v.type \in {"str", "dict"} ->
                            /\ r.raised = "" /\ FixtureHubIsNew
                            /\ hubs[r.hub].client.id = NewClientBase + r.hub
                      [] v.type = "Client" ->
                            /\ r.raised = "" /\ FixtureHubIsNew
                            /\ hubs[r.hub].client.id = UserClient
                      [] v.type = "Hub" ->
                            /\ r.raised = "" /\ ~FixtureHubIsNew
                            /\ r.hub = (IF v.val = "user" THEN USER_HUB ELSE BARE_HUB)
                      [] OTHER ->
                            /\ r.raised = "RuntimeError" /\ r.type = v.type
                            /\ ~FixtureHubIsNew

\* A callable returning a string was resolved: invoked once, and a new hub
\* around a new client stands for it.
C7_Witness ==
    /\ lastFixture.item = "t1"
    /\ markers["t1"] = Mark(<<V("function", "str")>>)
    /\ lastFixture.invoked = 1 /\ lastFixture.raised = ""
    /\ FixtureHubIsNew
    /\ hubs[lastFixture.hub].client.dsn = "https://dsn"

\* C8: an exception raised by the wrapped hook's before-part or after-part
\* leaves the interceptor as that exception, and the interceptor returns
\* normally only when the wrapped hook returned (StopIteration).
C8_NeverMasks ==
    /\ lastDone.part \notin {"", "StopIteration"} => lastDone.raised = lastDone.part
    /\ (lastDone.stage = "after" /\ lastDone.enabled /\ lastDone.raised = "")
          => lastDone.part = "StopIteration"

\* The outcome hook read the engine's result, the inner hooks' failure was
\* re-raised in its after-part and left the interceptor, the hub restored.
C8_Witness ==
    /\ lastDone.hook = "makereport" /\ lastDone.stage = "after"
    /\ lastDone.result = "raise"
    /\ lastDone.part = "ReportError" /\ lastDone.raised = "ReportError"
    /\ current = lastDone.saved

\* C9 as stated: for an item whose marker carries no positional argument,
\* every hook and the fixture resolve to the default hub and raise nothing.
C9_NoArgumentIsDefault ==
    /\ (lastDone.item # "" /\ markers[lastDone.item] = Mark(<<>>))
          => lastDone.raised = "" /\ lastDone.hub = DEFAULT_HUB
    /\ (lastFixture.item # "" /\ markers[lastFixture.item] = Mark(<<>>))
          => lastFixture.raised = "" /\ lastFixture.hub = DEFAULT_HUB

\* A marker value that Python's bool() takes for false.
Falsy(v) ==
    \/ v.type = "NoneType"
    \/ v.type = "str" /\ v.val = ""
    \/ v.type = "dict" /\ v.val = "empty"
    \/ v.type = "int" /\ v.val = "0"
    \/ v.type = "bool" /\ v.val = "False"

\* The marker's argument is falsy, or a callable returning a falsy value.
FalsyArg(m) == m.present /\ Len(m.args) = 1 /\ Falsy(Resolved(m))

\* The marker's argument is None, or a callable returning None.
NoneArg(m) == m.present /\ Len(m.args) = 1 /\ Resolved(m).type = "NoneType"

\* C10 as stated: every hook of an item with a falsy marker argument is a
\* no-op on a hub without client.
C10_FalsyDisables ==
    (lastDone.item # "" /\ FalsyArg(markers[lastDone.item]))
        => /\ lastDone.raised = "" /\ ~lastDone.enabled
           /\ hubs[lastDone.hub].client.id = NoneClient

\* C10 as the code has it: for an item whose marker argument is None or a
\* callable returning None, the resolver never raises and gives a new hub
\* without client, and every hook of the item is a pass-through with no
\* context switch and no reporting call; the hooks of an item without marker
\* in the same run are instrumented on the default hub.
C10_NoneDisables ==
    [][ /\ (Pushed /\ NoneArg(markers[Last(stack').item]))
            => /\ NoReporting /\ ~Last(stack').enabled
               /\ Last(stack').hub \notin DOMAIN hubs
               /\ hubs'[Last(stack').hub].client.id = NoneClient
        /\ (Popped /\ NoneArg(markers[Last(stack).item]))
            => NoReporting /\ lastDone'.raised = "" /\ lastDone'.body = 0
        /\ RaisedAtStart => ~NoneArg(markers[lastDone'.item])
        /\ (Pushed /\ NoneArg(markers["t1"]) /\ Last(stack').item = "t2")
            => Last(stack').enabled /\ current' = DEFAULT_HUB ]_vars

\* The protocol phase of t1, whose marker is a callable returning None, went
\* through uninstrumented; t2's protocol phase is now running on the default
\* hub.
C10_Witness ==
    /\ markers["t1"] = Mark(<<V("function", "None")>>)
    /\ lastDone.item = "t1" /\ lastDone.hook = "protocol"
    /\ lastDone.stage = "after" /\ ~lastDone.enabled
    /\ Len(stack) = 1 /\ stack[1].item = "t2" /\ stack[1].enabled
    /\ current = DEFAULT_HUB
    /\ captured = <<>>

\* The marker's argument is a string, or a callable returning a string.
StrArg(m) == m.present /\ Len(m.args) = 1 /\ Resolved(m).type = "str"

\* C11 as stated: the client the fixture's resolver builds for a string marker
\* value s has dsn s, whatever PYTEST_SENTRY_DSN holds, with
\* traces_sample_rate 1.0 and environment "test".
C11_EndpointOverride ==
    (lastFixture.item # "" /\ StrArg(markers[lastFixture.item]))
        => /\ lastFixture.raised = ""
           /\ hubs[lastFixture.hub].client.dsn = Resolved(markers[lastFixture.item]).val
           /\ hubs[lastFixture.hub].client.traces_sample_rate = 10
           /\ hubs[lastFixture.hub].client.environment = "test"

\* C12 as stated: the hub the sentry_test_hub fixture returned for an item is
\* the hub of every hook of that item that is in flight around the fixture
\* (its protocol, call and fixture-setup hooks), and the hooks in flight for
\* one item all run on one hub.
C12_OneHubPerItem ==
    /\ \A j, k \in 1..Len(stack) :
          stack[j].item = stack[k].item => stack[j].hub = stack[k].hub
    /\ (lastFixture.item # "" /\ lastFixture.raised = "")
          => \A k \in 1..Len(stack) :
                stack[k].item = lastFixture.item => stack[k].hub = lastFixture.hub

\* The values of PYTEST_SENTRY_ALWAYS_REPORT that are "1", "true" or "yes"
\* when letter case is ignored.
TruthyForms == {"1", "true", "True", "TRUE", "yes", "Yes", "YES"}

\* C13: a PytestIntegration built with always_report=True or =False has that
\* value whatever the environment holds; one built without the argument (by a
\* caller, or by Client.__init__ for the client it builds) has always_report
\* true exactly when PYTEST_SENTRY_ALWAYS_REPORT is, ignoring case, "1",
\* "true" or "yes", and false for every other value, unset and empty included.
C13_AlwaysReportResolution ==
    /\ lastBuilt.kind = "PytestIntegration" =>
          lastBuilt.integration.always_report =
             (CASE lastBuilt.always_report = "True"  -> TRUE
                [] lastBuilt.always_report = "False" -> FALSE
                [] OTHER -> environ.PYTEST_SENTRY_ALWAYS_REPORT \in TruthyForms)
    /\ lastBuilt.kind = "Client" =>
          Last(lastBuilt.client.integrations).always_report =
             (environ.PYTEST_SENTRY_ALWAYS_REPORT \in TruthyForms)

\* With PYTEST_SENTRY_ALWAYS_REPORT=YES a toggle was built with
\* always_report=False and has it false, after one built without argument had
\* it true.
C13_Witness ==
    /\ environ.PYTEST_SENTRY_ALWAYS_REPORT = "YES"
    /\ lastBuilt.kind = "PytestIntegration"
    /\ lastBuilt.always_report = "False"
    /\ ~lastBuilt.integration.always_report
    /\ Len(callerList) = 2
    /\ callerList[1].always_report

\* The module names of the model that lie in the namespaces of the test
\* runner and of its plugin machinery.
FrameworkModules == {"pluggy._hooks", "_pytest.runner", "pytest.collect"}

\* The frames with in_app set by the rule of the claim, all else kept.
Classified(frames) ==
    [i \in 1..Len(frames) |->
        [frames[i] EXCEPT !.in_app =
            IF frames[i].module.type = "str" /\ frames[i].module.val \in FrameworkModules
            THEN "False" ELSE "True"]]

\* The event with every frame of every stack trace classified.
ClassifiedEvent(e) ==
    [e EXCEPT !.stacktrace.frames = Classified(@),
              !.exception.values =
                 [i \in 1..Len(@) |-> [@[i] EXCEPT !.stacktrace.frames = Classified(@)]]]

\* C14 as stated: for every event _process_event returns the event, with
\* every frame of every exception entry's stack trace and of the top-level
\* stack trace marked in_app unless its module lies in a framework namespace,
\* and nothing else changed.
C14_EventClassified ==
    lastProcess.called =>
        /\ lastProcess.raised = ""
        /\ event = ClassifiedEvent(lastProcess.given)

\* What the before-part of the wrapped hook of frame f left on the top scope
\* of hub h (in the state after the step).
BeforePartActedOn(f, h) ==
    LET scope == Last(hubs'[h].stack)
    IN  CASE f.hook = "protocol"   -> scope.owner = f.item /\ scope.processors >= 1
          [] f.hook = "makereport" -> scope.tag = "pending"
          [] OTHER                 -> scope.span >= 1

\* C15: an instrumented hook reaches its single yield with its item's hub
\* current and its before-part done on that hub; while it is the innermost
\* hook in flight (the engine runs the inner phase) that hub stays current;
\* the engine's send resumes the wrapped hook once, with the value sent: the
\* outcome hook's after-part acts on that value and on that hub; then the
\* interceptor ends, having yielded once, and Hub.current is again the hub
\* that was current before the hook.
C15_ActivationSpan ==
    [][ /\ (Pushed /\ Last(stack').enabled)
            => /\ current' = Last(stack').hub
               /\ BeforePartActedOn(Last(stack'), Last(stack').hub)
        /\ (stack' # <<>> /\ Last(stack').enabled) => current' = Last(stack').hub
        /\ (Popped /\ Last(stack).enabled)
            => LET f == Last(stack)
               IN  /\ current = f.hub
                   /\ lastDone'.yields = 1 /\ lastDone'.sends = 1
                   /\ lastDone'.body = 1
                   /\ lastDone'.part = (IF lastDone'.result = "raise"
                                        THEN "ReportError" ELSE "StopIteration")
                   /\ (f.hook = "makereport" /\ lastDone'.result = "ok")
                         => Last(hubs'[f.hub].stack).tag = Outcome(f)
                   /\ current' = f.saved
                   /\ hubs'[f.hub].old_hubs = Front(hubs[f.hub].old_hubs) ]_vars

\* The outcome hook of an item whose marker is a Hub instance ran inside the
\* item's protocol phase: it was resumed once with the engine's report, set
\* the outcome tag on the user's hub, and that hub, active for the protocol
\* phase, is current.
C15_Witness ==
    /\ lastDone.hook = "makereport" /\ lastDone.stage = "after"
    /\ lastDone.enabled /\ lastDone.hub = USER_HUB
    /\ lastDone.yields = 1 /\ lastDone.sends = 1 /\ lastDone.result = "ok"
    /\ lastDone.part = "StopIteration" /\ lastDone.raised = ""
    /\ Last(hubs[USER_HUB].stack).tag = "passed"
    /\ Len(stack) = 1 /\ stack[1].hook = "protocol" /\ stack[1].hub = USER_HUB
    /\ current = USER_HUB
    /\ hubs[USER_HUB].old_hubs = <<GLOBAL_HUB>>

\* Sequence s is a prefix of sequence t.
IsPrefix(s, t) == Len(s) <= Len(t) /\ SubSeq(t, 1, Len(s)) = s

\* The step ends an instrumented outcome hook of the item that handled a
\* "call" phase that raised (the engine having produced the report).
HandlesRaisedCall(item) ==
    /\ CallOutcomeStep
    /\ Last(stack).item = item
    /\ Last(stack).excinfo # 0

\* C16: in every step, whatever hook it starts or ends, each item's chain
\* keeps the chain before the step as a prefix; it is the old chain with the
\* failure of the call appended when the step is an outcome hook handling a
\* "call" phase that raised, and unchanged in every other step (setup and
\* teardown outcomes, passing calls, hooks of other items).
C16_ChainMonotonic ==
    [][ \A item \in Items :
          /\ IsPrefix(chain[item], chain'[item])
          /\ IF HandlesRaisedCall(item)
             THEN chain'[item] = Append(chain[item], Last(stack).excinfo)
             ELSE chain'[item] = chain[item] ]_vars

\* Two raising "call" outcomes were chained in order, then a raising
\* "teardown" outcome was handled and left the chain alone.
C16_Witness ==
    /\ chain["t1"] = <<1, 2>>
    /\ lastDone.hook = "makereport" /\ lastDone.when = "teardown"
    /\ lastDone.item = "t1" /\ lastDone.enabled /\ lastDone.result = "ok"
    /\ lastDone.excinfo = 3
    /\ reports["t1"].raised = 2

\* C17 as stated: a hook is instrumented only when the hub that was current
\* at its invocation carries the PytestIntegration.
C17_CurrentHubDecides ==
    \A k \in 1..Len(stack) :
        stack[k].enabled => hubs[stack[k].saved].client.integration.present

\* C17 as the code has it: the interceptor resolves the item's hub on every
\* invocation and decides from the PytestIntegration of that resolved hub,
\* whatever hub is current: when the resolved hub carries none the hook runs
\* with no context switch and no reporting, and when it carries one the
\* resolved hub is made current.
C17_ResolvedHubDecides ==
    [][ Pushed =>
          LET f == Last(stack')
              res == _resolve_hub_marker_value(markers[f.item], NextHub, environ)
          IN  /\ res.raised = "" /\ f.hub = res.hub
              /\ f.saved = current
              /\ f.enabled = hubs'[f.hub].client.integration.present
              /\ f.enabled => current' = f.hub
              /\ ~f.enabled => NoReporting ]_vars

\* With the SDK's main hub current, which has no client and so no
\* integration, the protocol hook of an item with a string marker runs
\* instrumented on the hub built for it.
C17_Witness ==
    /\ Len(stack) = 1 /\ stack[1].hook = "protocol"
    /\ markers[stack[1].item] = Mark(<<V("str", "https://dsn")>>)
    /\ stack[1].saved = GLOBAL_HUB
    /\ ~hubs[GLOBAL_HUB].client.integration.present
    /\ stack[1].enabled /\ stack[1].hub >= FirstNewHub
    /\ current = stack[1].hub
    /\ Len(hubs[current].stack) = 2

\* The instrumented protocol phases in flight on hub h.
ProtocolsOn(h) ==
    { k \in 1..Len(stack) :
        stack[k].hook = "protocol" /\ stack[k].enabled /\ stack[k].hub = h }

\* C18: the scope stack of every hub is its root scope, with no
\* _process_event registered, plus one scope for the instrumented protocol
\* phase in flight on it, if any, that scope holding exactly one registration
\* and belonging to that phase's item; so with no protocol phase in flight,
\* after any items run and however their phases ended, every hub's scope
\* stack has its initial depth and no registration.
C18_ScopedRegistration ==
    \A h \in DOMAIN hubs :
        /\ Len(hubs[h].stack) = 1 + Cardinality(ProtocolsOn(h))
        /\ hubs[h].stack[1].processors = 0
        /\ hubs[h].stack[1].owner = ""
        /\ \A k \in ProtocolsOn(h) :
              /\ hubs[h].stack[2].processors = 1
              /\ hubs[h].stack[2].owner = stack[k].item

\* The protocol phase of t1 ran instrumented on the default hub and ended;
\* the protocol phase of t2 is in flight on the same hub, whose stack holds
\* the root scope and t2's scope with its single registration.
C18_Witness ==
    /\ lastDone.item = "t1" /\ lastDone.hook = "protocol"
    /\ lastDone.stage = "after" /\ lastDone.enabled
    /\ lastDone.hub = DEFAULT_HUB
    /\ Len(stack) = 1 /\ stack[1].item = "t2" /\ stack[1].hub = DEFAULT_HUB
    /\ Len(hubs[DEFAULT_HUB].stack) = 2
    /\ hubs[DEFAULT_HUB].stack[2].processors = 1
    /\ hubs[DEFAULT_HUB].stack[2].owner = "t2"

\* C19 as stated: every capture_exception call of the outcome hook was made
\* on a hub whose top scope, at that moment, was the scope pushed by the
\* protocol phase of the item the failure belongs to, with _process_event
\* registered on it.
C19_CapturedUnderProcessor ==
    \A k \in 1..Len(captured) :
        /\ captured[k].scope.processors >= 1
        /\ captured[k].scope.owner \in Items
        /\ \E i \in 1..Len(chain[captured[k].scope.owner]) :
              chain[captured[k].scope.owner][i] = captured[k].exc

\* C20 as stated: the client built last holds exactly one PytestIntegration in
\* its integrations list, whatever list the caller gave and however often a
\* client was built from it before, and the caller's list is as it was when
\* passed.
C20_OneIntegration ==
    lastBuilt.kind = "Client" =>
        /\ Len(lastBuilt.client.integrations) = 1
        /\ lastBuilt.keyword => callerList = lastBuilt.given

====
